---- MODULE Spec2Model ----
(***************************************************************************)
(* A model of src/nuts.py: the No-U-Turn Sampler with dual averaging       *)
(* (nuts6) and its subroutines leapfrog, find_reasonable_epsilon,          *)
(* stop_criterion and build_tree.                                          *)
(*                                                                         *)
(* Numbers.  A Python float is modelled as a fixed-point integer with      *)
(* Scale units per 1.0 (1.0 is 1000, 0.5 is 500), plus three sentinel      *)
(* integers for the IEEE values +inf, -inf and NaN.  Every arithmetic      *)
(* operator below propagates the sentinels as IEEE arithmetic does, and    *)
(* every comparison with NaN is false.  Vectors (1-D ndarrays) are         *)
(* sequences of such numbers.                                              *)
(*                                                                         *)
(* Randomness and the oracle.  Each np.random draw is an input chosen      *)
(* with \E from a small set.  The user's oracle f is an input fixed at     *)
(* construction: one of a small family of deterministic functions.         *)
(***************************************************************************)
EXTENDS Integers, Sequences, FiniteSets, TLC

\* ------------------------------------------------------------- numbers

Scale == 10^3
PosInf == 10^9
NegInf == -(10^9)
NaN == 2 * (10^9)

\* The value of Body at val, with val evaluated once (a LET whose
\* definition is not evaluated again at each use); Bind2 for two values.
Bind(val, Body(_)) == CHOOSE out \in {Body(x) : x \in {val}} : TRUE
Bind2(val1, val2, Body(_, _)) ==
    CHOOSE out \in {Body(x, y) : x \in {val1}, y \in {val2}} : TRUE

IsNaN(x) == x = NaN
IsInf(x) == x = PosInf \/ x = NegInf
IsFinite(x) == x > NegInf /\ x < PosInf

Abs(x) == IF x < 0 THEN -x ELSE x
Sign(x) == IF x < 0 THEN -1 ELSE IF x > 0 THEN 1 ELSE 0

\* n / d rounded to the nearest integer, halves to the even one, d > 0.
RDiv(n, d) ==
    LET q == Abs(n) \div d
        r == Abs(n) % d
        up == 2 * r > d \/ (2 * r = d /\ q % 2 = 1)
    IN Sign(n) * (IF up THEN q + 1 ELSE q)

\* The finite numbers of the model lie strictly between -10^9 and 10^9
\* (-10^6 and 10^6 in units of 1.0); a result outside overflows to +-inf,
\* as a float does beyond 1.8e308.
Sat(x) == IF x >= PosInf THEN PosInf ELSE IF x <= NegInf THEN NegInf ELSE x

\* a * b / Scale for finite a and b, without overflowing a 32-bit integer.
FMul(a, b) ==
    IF Abs(a) < 2^15 /\ Abs(b) < 2^15 THEN RDiv(a * b, Scale)
    ELSE LET hi == IF Abs(a) >= Abs(b) THEN a ELSE b
             lo == IF Abs(a) >= Abs(b) THEN b ELSE a
             q == Abs(hi) \div Scale
             rem == Abs(hi) % Scale
             sg == Sign(hi) * Sign(lo)
         IN IF lo = 0 THEN 0
            ELSE IF q > (PosInf - 1) \div Abs(lo) THEN (IF sg > 0 THEN PosInf ELSE NegInf)
            ELSE Sat(sg * (q * Abs(lo) + (rem * Abs(lo)) \div Scale))

\* a * Scale / b for finite a and b > 0, without overflowing.
FDiv(a, b) ==
    IF Abs(a) < 10^6 THEN RDiv(a * Scale, b)
    ELSE IF b >= Scale THEN Sat(Sign(a) * ((Abs(a) \div b) * Scale + ((Abs(a) % b) * Scale) \div b))
    ELSE IF Abs(a) \div b >= 10^6 THEN (IF a > 0 THEN PosInf ELSE NegInf)
    ELSE Sat(Sign(a) * ((Abs(a) \div b) * Scale))

XNeg(a) == Bind(a, LAMBDA x : IF IsNaN(x) THEN NaN ELSE -x)

XAdd(a, b) ==
    Bind2(a, b, LAMBDA x, y :
        IF IsNaN(x) \/ IsNaN(y) THEN NaN
        ELSE IF IsInf(x) /\ IsInf(y) THEN (IF x = y THEN x ELSE NaN)
        ELSE IF IsInf(x) THEN x
        ELSE IF IsInf(y) THEN y
        ELSE Sat(x + y))

XSub(a, b) == XAdd(a, XNeg(b))

XMul(a, b) ==
    Bind2(a, b, LAMBDA x, y :
        IF IsNaN(x) \/ IsNaN(y) THEN NaN
        ELSE IF IsInf(x) \/ IsInf(y)
             THEN (IF x = 0 \/ y = 0 THEN NaN
                   ELSE IF Sign(x) * Sign(y) > 0 THEN PosInf ELSE NegInf)
        ELSE FMul(x, y))

\* a / b (numpy: x / 0 is +-inf, 0 / 0 is NaN).
XDiv(a, b) ==
    Bind2(a, b, LAMBDA x, y :
        IF IsNaN(x) \/ IsNaN(y) THEN NaN
        ELSE IF IsInf(x) THEN (IF IsInf(y) THEN NaN
                               ELSE IF Sign(x) * (IF y < 0 THEN -1 ELSE 1) > 0 THEN PosInf
                               ELSE NegInf)
        ELSE IF IsInf(y) THEN 0
        ELSE IF y = 0 THEN (IF x = 0 THEN NaN ELSE IF x > 0 THEN PosInf ELSE NegInf)
        ELSE IF y > 0 THEN FDiv(x, y)
        ELSE XNeg(FDiv(x, -y)))

\* Comparisons: false as soon as one side is NaN.
XLess(a, b) == Bind2(a, b, LAMBDA x, y : ~IsNaN(x) /\ ~IsNaN(y) /\ x < y)
XGeq(a, b) == Bind2(a, b, LAMBDA x, y : ~IsNaN(x) /\ ~IsNaN(y) /\ x >= y)
XGreater(a, b) == XLess(b, a)

\* Python's min(a, b) == b if b < a else a.
XMin(a, b) == Bind2(a, b, LAMBDA x, y : IF XLess(y, x) THEN y ELSE x)
XMax(a, b) == Bind2(a, b, LAMBDA x, y : IF XGreater(y, x) THEN y ELSE x)

Pow2(n) == 2^n

\* np.log(2.)
LN2 == 693

\* exp: exact at the multiples of log 2, linear in between.
Exp(a) ==
    Bind(a, LAMBDA x :
        IF IsNaN(x) THEN NaN
        ELSE IF x = PosInf THEN PosInf
        ELSE IF x = NegInf THEN 0
        ELSE IF x > 19 * LN2 THEN PosInf
        ELSE IF x < -(19 * LN2) THEN 0
        ELSE LET q == x \div LN2
                 rem == x - q * LN2
                 mant == Scale + RDiv(rem * Scale, LN2)
             IN IF q > 18 THEN PosInf
                ELSE IF q < -18 THEN 0
                ELSE IF q >= 0 THEN mant * Pow2(q)
                ELSE RDiv(mant, Pow2(-q)))

RECURSIVE LogNorm(_, _)
\* The q with Scale * 2^q <= y < 2 * Scale * 2^q, for y > 0, starting at q.
LogNorm(y, q) ==
    IF q >= 0 /\ y >= 2 * Scale * Pow2(q) THEN LogNorm(y, q + 1)
    ELSE IF q > 0 THEN q
    ELSE IF y * Pow2(-q) < Scale THEN LogNorm(y, q - 1)
    ELSE q

\* log: the inverse of Exp.
Log(a) ==
    Bind(a, LAMBDA y :
        IF IsNaN(y) THEN NaN
        ELSE IF y = PosInf THEN PosInf
        ELSE IF y < 0 THEN NaN
        ELSE IF y = 0 THEN NegInf
        ELSE Bind(LogNorm(y, 0), LAMBDA q :
             Bind(IF q >= 0 THEN RDiv(y, Pow2(q)) ELSE y * Pow2(-q), LAMBDA mant :
                 q * LN2 + RDiv((mant - Scale) * LN2, Scale))))

RECURSIVE Newton(_, _)
\* Newton's iteration for the integer square root of n, from r >= isqrt(n).
Newton(n, r) ==
    Bind((r + n \div r) \div 2, LAMBDA nxt : IF nxt >= r THEN r ELSE Newton(n, nxt))

ISqrt(n) == IF n = 0 THEN 0 ELSE Newton(n, n)

\* sqrt of a fixed-point number.
Sqrt(a) ==
    Bind(a, LAMBDA x :
        IF IsNaN(x) \/ x < 0 THEN NaN
        ELSE IF x = PosInf THEN PosInf
        ELSE IF x >= 2 * 10^6 THEN Scale * ISqrt(x \div Scale)
        ELSE ISqrt(x * Scale))

\* ------------------------------------------------------------- vectors

Dim(x) == Len(x)
VAdd(a, b) == Bind2(a, b, LAMBDA x, y : [i \in 1..Len(x) |-> XAdd(x[i], y[i])])
VSub(a, b) == Bind2(a, b, LAMBDA x, y : [i \in 1..Len(x) |-> XSub(x[i], y[i])])
VMul(a, b) == Bind2(a, b, LAMBDA x, y : [i \in 1..Len(x) |-> XMul(x[i], y[i])])
VScale(c, a) == Bind2(c, a, LAMBDA k, x : [i \in 1..Len(x) |-> XMul(k, x[i])])
VConst(c, d) == [i \in 1..d |-> c]
VAllFinite(a) == Bind(a, LAMBDA x : \A i \in 1..Len(x) : IsFinite(x[i]))

RECURSIVE DotFrom(_, _, _)
DotFrom(x, y, i) == IF i > Len(x) THEN 0 ELSE XAdd(XMul(x[i], y[i]), DotFrom(x, y, i + 1))

\* np.dot of two 1-D arrays.
Dot(a, b) == Bind2(a, b, LAMBDA x, y : DotFrom(x, y, 1))

\* ------------------------------------------------------ the oracle f

Half == Scale \div 2
One == Scale

\* The oracles f the sampler is run with: each maps a position to
\* (logp, grad).
\*   "quad"   the standard normal: logp = -0.5 theta.theta, grad = -theta
\*   "posinf" logp = +inf at every position, with a zero gradient
\*   "wall"   a wide normal (variance Wide) inside the box
\*            |theta_i| <= WallAt, and outside it logp = -inf with a NaN
\*            gradient
\*   "cliff"  the wide normal inside the box, and outside it a finite logp
\*            more than 1000 below any value inside, with a zero gradient
OracleKinds == {"quad", "posinf", "wall", "cliff"}

WallAt == 3 * Scale
CliffLogp == -(2000 * Scale)

InBox(theta) == \A i \in 1..Len(theta) : IsFinite(theta[i]) /\ Abs(theta[i]) <= WallAt

Quad(theta) == [logp |-> XNeg(XMul(Half, Dot(theta, theta))), grad |-> [i \in 1..Len(theta) |-> XNeg(theta[i])]]

Wide == 16
Flat(theta) == [logp |-> XNeg(XDiv(XMul(Half, Dot(theta, theta)), Wide * Scale)),
                grad |-> [i \in 1..Len(theta) |-> XNeg(XDiv(theta[i], Wide * Scale))]]

\* logp, grad = f(theta)
Call(f, theta) ==
    Bind(theta, LAMBDA x :
        CASE f = "quad" -> Quad(x)
          [] f = "posinf" -> [logp |-> PosInf, grad |-> VConst(0, Len(x))]
          [] f = "wall" -> IF InBox(x) THEN Flat(x)
                           ELSE [logp |-> NegInf, grad |-> VConst(NaN, Len(x))]
          [] f = "cliff" -> IF InBox(x) THEN Flat(x)
                            ELSE [logp |-> CliffLogp, grad |-> VConst(0, Len(x))])

\* ------------------------------------------------------------ leapfrog

\* r + 0.5 * epsilon * grad
HalfKick(r, epsilon, grad) == VAdd(r, VScale(XMul(Half, epsilon), grad))

\* theta + epsilon * inv_mass * rprime
Drift(theta, epsilon, inv_mass, rprime) == VAdd(theta, VMul(VScale(epsilon, inv_mass), rprime))

leapfrog(theta, r, grad, epsilon, f, inv_mass) ==
    Bind(HalfKick(r, epsilon, grad), LAMBDA rhalf :
    Bind(Drift(theta, epsilon, inv_mass, rhalf), LAMBDA thetaprime :
    Bind(Call(f, thetaprime), LAMBDA fp :
        [thetaprime |-> thetaprime, rprime |-> HalfKick(rhalf, epsilon, fp.grad),
         gradprime |-> fp.grad, logpprime |-> fp.logp])))

\* ------------------------------------------------------ stop_criterion

\* stop_criterion with the second test taken on thetaplus instead of dtheta.
stop_criterion_asym(thetaminus, thetaplus, rminus, rplus, inv_mass) ==
    LET dtheta == VSub(thetaplus, thetaminus)
    IN XGeq(Dot(dtheta, VMul(inv_mass, rminus)), 0)
       /\ XGeq(Dot(thetaplus, VMul(inv_mass, rplus)), 0)

stop_criterion(thetaminus, thetaplus, rminus, rplus, inv_mass) ==
    LET dtheta == VSub(thetaplus, thetaminus)
    IN XGeq(Dot(dtheta, VMul(inv_mass, rminus)), 0)
       /\ XGeq(Dot(dtheta, VMul(inv_mass, rplus)), 0)

\* ---------------------------------------------------------- build_tree

Bool2Int(b) == IF b THEN 1 ELSE 0

\* nprime = int(logu < joint)
SliceCount(logu, joint) == Bool2Int(XLess(logu, joint))

DivergenceThreshold == 1000 * Scale

\* sprime = np.isfinite(joint) and int((logu - 1000.) < joint)
LeafContinue(logu, joint) ==
    IF ~IsFinite(joint) THEN 0
    ELSE Bool2Int(XLess(XSub(logu, DivergenceThreshold), joint))

\* alphaprime of the base case
LeafAlpha(joint, joint0) ==
    IF ~IsFinite(joint) THEN 0 ELSE XMin(One, Exp(XSub(joint, joint0)))

\* The second subtree built whatever the first one's flag.
BuildSecondAlways(sprime) == TRUE

\* if (sprime == 1): the second subtree is built
BuildSecond(sprime) == sprime = 1

\* np.random.uniform() < nprime2 / max(nprime + nprime2, 1.)
TakeSecond(u, nprime, nprime2) ==
    XLess(u, XDiv(nprime2 * Scale, XMax(Scale * (nprime + nprime2), One)))

\* The count with the starting point counted in, as the while loop's n is.
CountSumOffByOne(nprime, nprime2) == nprime + nprime2 + 1

CountSum(nprime, nprime2) == nprime + nprime2

\* sprime = int(sprime and sprime2 and stop_criterion(...))
TreeContinue(sprime, sprime2, sc) == Bool2Int(sprime = 1 /\ sprime2 = 1 /\ sc)

\* Both endpoints taken from the second subtree.
MergeEndsSecond(v, t1, t2) ==
    [thetaminus |-> t2.thetaminus, rminus |-> t2.rminus, gradminus |-> t2.gradminus,
     thetaplus |-> t2.thetaplus, rplus |-> t2.rplus, gradplus |-> t2.gradplus]

\* The endpoints kept after the second subtree: the endpoint in the
\* direction v is the second subtree's, the other the first subtree's.
MergeEnds(v, t1, t2) ==
    IF v = -1
    THEN [thetaminus |-> t2.thetaminus, rminus |-> t2.rminus, gradminus |-> t2.gradminus,
          thetaplus |-> t1.thetaplus, rplus |-> t1.rplus, gradplus |-> t1.gradplus]
    ELSE [thetaminus |-> t1.thetaminus, rminus |-> t1.rminus, gradminus |-> t1.gradminus,
          thetaplus |-> t2.thetaplus, rplus |-> t2.rplus, gradplus |-> t2.gradplus]

\* The number of np.random.uniform() draws a tree of depth j can make.
NDraws(j) == Pow2(j) - 1

\* joint = float(logpprime) - 0.5 * np.dot(invM_cholrprime, invM_cholrprime.T)
LeafJoint(lf, inv_mass_chol) ==
    Bind(VMul(inv_mass_chol, lf.rprime), LAMBDA invM_cholrprime :
        XSub(lf.logpprime, XMul(Half, Dot(invM_cholrprime, invM_cholrprime))))

\* What the base case (j == 0) returns: lf is the leapfrog step taken from
\* (theta, r, grad) and joint its joint log-density.
BaseCase(theta, r, grad, logu, joint0, lf, joint) ==
    [thetaminus |-> lf.thetaprime, rminus |-> lf.rprime, gradminus |-> lf.gradprime,
     thetaplus |-> lf.thetaprime, rplus |-> lf.rprime, gradplus |-> lf.gradprime,
     thetaprime |-> lf.thetaprime, gradprime |-> lf.gradprime,
     logpprime |-> lf.logpprime,
     nprime |-> SliceCount(logu, joint), sprime |-> LeafContinue(logu, joint),
     alphaprime |-> LeafAlpha(joint, joint0), nalphaprime |-> 1,
     used |-> 0,
     leaves |-> << [from |-> [theta |-> theta, r |-> r, grad |-> grad],
                    to |-> [theta |-> lf.thetaprime, r |-> lf.rprime, grad |-> lf.gradprime],
                    joint |-> joint, nprime |-> SliceCount(logu, joint),
                    sprime |-> LeafContinue(logu, joint)] >>,
     calls |-> << [j |-> 0, lo |-> 1, hi |-> 1, nprime |-> SliceCount(logu, joint),
                   sprime |-> LeafContinue(logu, joint),
                   minus |-> [theta |-> lf.thetaprime, r |-> lf.rprime, grad |-> lf.gradprime],
                   plus |-> [theta |-> lf.thetaprime, r |-> lf.rprime, grad |-> lf.gradprime]] >>]

\* The entries of a log of calls, their leaves numbered from k + 1.
ShiftCalls(calls, k) ==
    [i \in 1..Len(calls) |-> [calls[i] EXCEPT !.lo = @ + k, !.hi = @ + k]]

\* What the recursion returns when the first subtree t1 stopped: t1's
\* values.
FirstOnly(j, t1) ==
    [t1 EXCEPT !.calls = t1.calls \o
                  << [j |-> j, lo |-> 1, hi |-> Len(t1.leaves),
                      nprime |-> t1.nprime, sprime |-> t1.sprime,
                      minus |-> [theta |-> t1.thetaminus, r |-> t1.rminus,
                                 grad |-> t1.gradminus],
                      plus |-> [theta |-> t1.thetaplus, r |-> t1.rplus,
                                grad |-> t1.gradplus]] >>]

\* What the recursion returns from its two subtrees t1 and t2; u is the
\* np.random.uniform() that chooses the subtree the sample comes from.
Combine(v, j, t1, t2, u, inv_mass) ==
    LET ends == MergeEnds(v, t1, t2)
        take == TakeSecond(u, t1.nprime, t2.nprime)
        sprime == TreeContinue(t1.sprime, t2.sprime,
                               stop_criterion(ends.thetaminus, ends.thetaplus,
                                              ends.rminus, ends.rplus, inv_mass))
    IN [thetaminus |-> ends.thetaminus, rminus |-> ends.rminus,
        gradminus |-> ends.gradminus,
        thetaplus |-> ends.thetaplus, rplus |-> ends.rplus,
        gradplus |-> ends.gradplus,
        thetaprime |-> IF take THEN t2.thetaprime ELSE t1.thetaprime,
        gradprime |-> IF take THEN t2.gradprime ELSE t1.gradprime,
        logpprime |-> IF take THEN t2.logpprime ELSE t1.logpprime,
        nprime |-> CountSum(t1.nprime, t2.nprime), sprime |-> sprime,
        alphaprime |-> XAdd(t1.alphaprime, t2.alphaprime),
        nalphaprime |-> t1.nalphaprime + t2.nalphaprime,
        used |-> t1.used + t2.used + 1,
        leaves |-> t1.leaves \o t2.leaves,
        calls |-> t1.calls \o ShiftCalls(t2.calls, Len(t1.leaves)) \o
                  << [j |-> j, lo |-> 1, hi |-> Len(t1.leaves) + Len(t2.leaves),
                      nprime |-> CountSum(t1.nprime, t2.nprime), sprime |-> sprime,
                      minus |-> [theta |-> ends.thetaminus, r |-> ends.rminus,
                                 grad |-> ends.gradminus],
                      plus |-> [theta |-> ends.thetaplus, r |-> ends.rplus,
                                grad |-> ends.gradplus]] >>]

RECURSIVE build_tree(_, _, _, _, _, _, _, _, _, _, _, _)
\* us is the stream of np.random.uniform() values the call draws from, in
\* the order it draws; "used" is how many it drew.  "leaves" lists the
\* leapfrog steps the call took, in order, and "calls" every build_tree
\* call made (this one last): its depth j, its leaves (lo..hi of "leaves")
\* and the count, the flag and the endpoints it returned.
build_tree(theta, r, grad, logu, v, j, epsilon, f, joint0, inv_mass_chol, inv_mass, us) ==
    IF j = 0
    THEN Bind(leapfrog(theta, r, grad, v * epsilon, f, inv_mass), LAMBDA lf :
         Bind(LeafJoint(lf, inv_mass_chol), LAMBDA joint :
             BaseCase(theta, r, grad, logu, joint0, lf, joint)))
    ELSE Bind(build_tree(theta, r, grad, logu, v, j - 1, epsilon, f, joint0,
                         inv_mass_chol, inv_mass, us), LAMBDA t1 :
         IF BuildSecond(t1.sprime)
         THEN Bind(IF v = -1
                   THEN build_tree(t1.thetaminus, t1.rminus, t1.gradminus, logu, v, j - 1,
                                   epsilon, f, joint0, inv_mass_chol, inv_mass,
                                   SubSeq(us, t1.used + 1, Len(us)))
                   ELSE build_tree(t1.thetaplus, t1.rplus, t1.gradplus, logu, v, j - 1,
                                   epsilon, f, joint0, inv_mass_chol, inv_mass,
                                   SubSeq(us, t1.used + 1, Len(us))), LAMBDA t2 :
                  Combine(v, j, t1, t2, us[t1.used + t2.used + 1], inv_mass))
         ELSE FirstOnly(j, t1))

\* ------------------------------------------------------- nuts6: state

\* Keyword defaults of nuts6.
delta == 600
epsilon0 == 1000

\* Parameters to the dual averaging algorithm.
gamma == 50
t0 == 10
kappa == 750

\* The weight of the first gradient in the initial mass estimate.
alpha_mass == 800

\* Bounds of the model: M <= MaxM, Madapt <= MaxMadapt,
\* max_tree_depth <= MaxDepth.
MaxM == 3
MaxMadapt == 1
MaxDepth == 3

\* The values np.random.normal, np.random.exponential and
\* np.random.uniform are drawn from.
NormalVals == {-1000, 500}
ExpVals == {100, 2000}
UniformVals == {0, 500}

NormalDraws(d) == {VConst(c, d) : c \in NormalVals}

\* A row of np.empty, and an entry of it, before anything is written there.
EmptyRow == << >>
EmptyVal == -(3 * 10^8)

VARIABLES
    f, M, Madapt, theta0, max_tree_depth, estimate_mass,    \* the arguments
    pc,             \* where nuts6 is
    error,          \* the exception nuts6 raised, or "none"
    f_called,       \* whether the oracle f has been called
    result,         \* what nuts6 returned
    D, samples, lnprob, logp, grad,
    diag_mass_avg, diag_mass_N, mass_chol, inv_mass, inv_mass_chol,
    epsilon, logepsilon, mu, logepsilonbar, Hbar, m_adapt,
    fre,            \* the locals of find_reasonable_epsilon
    m, r0, joint, logu,
    thetaminus, thetaplus, rminus, rplus, gradminus, gradplus,
    j, n, s, alpha, nalpha,
    bt,             \* the last build_tree call of the while loop
    traj,           \* the points of this iteration's trajectory, in time order
    frozen,         \* logepsilonbar as it stood when burn-in ended
    sc              \* a stop_criterion call (specification SpecSC)

args == << f, M, Madapt, theta0, max_tree_depth, estimate_mass >>
buffers == << D, samples, lnprob >>
current == << logp, grad >>
mass == << diag_mass_avg, diag_mass_N, mass_chol, inv_mass, inv_mass_chol >>
dual == << epsilon, logepsilon, mu, logepsilonbar, Hbar, m_adapt >>
tree == << r0, joint, logu, thetaminus, thetaplus, rminus, rplus, gradminus, gradplus,
           j, n, s, alpha, nalpha >>
ghost == << bt, traj, frozen >>
vars == << args, pc, error, f_called, result, buffers, current, mass, dual, fre, m,
           tree, ghost, sc >>

\* np.shape(theta0)
Shape(x) ==
    CASE x.rank = 0 -> << >>
      [] x.rank = 1 -> << Len(x.data) >>
      [] x.rank = 2 -> << Len(x.data), Len(x.data[1]) >>

NoCall == [m |-> 0, v |-> 0, j |-> 0, epsilon |-> 0, accepted |-> FALSE, nbefore |-> 0,
           out |-> << >>]
NoFre == [epsilon |-> 0, r0 |-> << >>, k |-> 0, rprime |-> << >>, gradprime |-> << >>,
          logpprime |-> 0, logacceptprob |-> 0, a |-> 0]

NoSC == [thetaminus |-> << >>, thetaplus |-> << >>, rminus |-> << >>, rplus |-> << >>,
         inv_mass |-> << >>, done |-> FALSE, out |-> FALSE, swapped |-> FALSE,
         reversed |-> FALSE]

\* The state before nuts6 has run a line.
Blank ==
    /\ pc = "start" /\ error = "none" /\ f_called = FALSE /\ result = << >>
    /\ D = 0 /\ samples = << >> /\ lnprob = << >> /\ logp = 0 /\ grad = << >>
    /\ diag_mass_avg = << >> /\ diag_mass_N = 0 /\ mass_chol = << >>
    /\ inv_mass = << >> /\ inv_mass_chol = << >>
    /\ epsilon = 0 /\ logepsilon = 0 /\ mu = 0 /\ logepsilonbar = 0 /\ Hbar = 0
    /\ m_adapt = 0
    /\ fre = NoFre
    /\ m = 0 /\ r0 = << >> /\ joint = 0 /\ logu = 0
    /\ thetaminus = << >> /\ thetaplus = << >> /\ rminus = << >> /\ rplus = << >>
    /\ gradminus = << >> /\ gradplus = << >>
    /\ j = 0 /\ n = 0 /\ s = 0 /\ alpha = 0 /\ nalpha = 0
    /\ bt = NoCall /\ traj = << >> /\ frozen = 0

Init ==
    /\ f \in OracleKinds
    /\ M \in 1..MaxM
    /\ Madapt \in 0..MaxMadapt
    /\ \/ theta0 = [rank |-> 1, data |-> << 1000 >>]
       \/ theta0 = [rank |-> 0, data |-> 1000]
       \/ theta0 = [rank |-> 2, data |-> << << 1000 >> >>]
    /\ max_tree_depth \in 0..MaxDepth
    /\ estimate_mass \in BOOLEAN
    /\ Blank
    /\ sc = NoSC

\* ------------------------------------- nuts6: up to the first leapfrog

\* 0.5 * (np.dot(rprime, (inv_mass*rprime).T) - np.dot(r0, (inv_mass*r0).T))
KineticDiff(rprime, r, im) ==
    XMul(Half, XSub(Dot(rprime, VMul(im, rprime)), Dot(r, VMul(im, r))))

VRecip(a) == Bind(a, LAMBDA x : [i \in 1..Len(x) |-> XDiv(One, x[i])])
VSqrt(a) == Bind(a, LAMBDA x : [i \in 1..Len(x) |-> Sqrt(x[i])])

\* The check of theta0's rank.
RankError(x) ==
    IF Len(Shape(x)) > 1 THEN "ValueError"
    ELSE IF x.rank = 0 THEN "TypeError"     \* len() of an unsized object
    ELSE "none"

Start ==
    /\ pc = "start"
    /\ IF RankError(theta0) # "none"
       THEN /\ pc' = "raised"
            /\ error' = RankError(theta0)
            /\ UNCHANGED << f_called, buffers, current, mass, fre, alpha >>
       ELSE \E d \in {Len(theta0.data)} :
            \E f0 \in {Call(f, theta0.data)} :
            \E avg \in {VAdd(VScale(alpha_mass, VMul(f0.grad, f0.grad)),
                              VConst(One - alpha_mass, d))} :
            \E im \in {IF estimate_mass THEN VRecip(avg) ELSE VConst(One, d)} :
               /\ D' = d
               /\ samples' = [i \in 0..(M + Madapt - 1) |->
                                 IF i = 0 THEN theta0.data ELSE EmptyRow]
               /\ lnprob' = [i \in 0..(M + Madapt - 1) |->
                                 IF i = 0 THEN f0.logp ELSE EmptyVal]
               /\ logp' = f0.logp
               /\ grad' = f0.grad
               /\ f_called' = TRUE
               /\ IF estimate_mass
                  THEN /\ alpha' = alpha_mass
                       /\ diag_mass_avg' = avg
                       /\ diag_mass_N' = 1
                       /\ mass_chol' = VSqrt(avg)
                       /\ inv_mass' = im
                       /\ inv_mass_chol' = VRecip(VSqrt(avg))
                  ELSE /\ alpha' = alpha
                       /\ diag_mass_avg' = << >>
                       /\ diag_mass_N' = 0
                       /\ mass_chol' = VConst(One, d)
                       /\ inv_mass' = im
                       /\ inv_mass_chol' = VConst(One, d)
               \* find_reasonable_epsilon, up to its first loop
               /\ \E r \in NormalDraws(d) :
                    \E lf \in {leapfrog(theta0.data, r, f0.grad, epsilon0, f, im)} :
                       fre' = [epsilon |-> epsilon0, r0 |-> r, k |-> One,
                               rprime |-> lf.rprime, gradprime |-> lf.gradprime,
                               logpprime |-> lf.logpprime, logacceptprob |-> 0, a |-> 0]
               /\ pc' = "fre_while"
               /\ error' = error
    /\ UNCHANGED << args, result, dual, m, r0, joint, logu, thetaminus, thetaplus, rminus,
                    rplus, gradminus, gradplus, j, n, s, nalpha, ghost, sc >>

\* ---------------------------------------------- find_reasonable_epsilon

\* while not (np.isfinite(logpprime) and np.isfinite(gradprime).all())
FreNotFinite(x) == ~(IsFinite(x.logpprime) /\ VAllFinite(x.gradprime))

\* The test of the first loop; on leaving it, the lines up to the second.
FreWhile ==
    /\ pc = "fre_while"
    /\ IF FreNotFinite(fre)
       THEN /\ pc' = "fre_halve"
            /\ fre' = fre
       ELSE \E eps \in {XMul(XMul(Half, fre.k), fre.epsilon)} :
            \E lap \in {XSub(XSub(fre.logpprime, logp),
                              KineticDiff(fre.rprime, fre.r0, inv_mass))} :
            \E a \in {2 * Scale * Bool2Int(XGreater(Exp(lap), Half)) - One} :
               /\ fre' = [fre EXCEPT !.epsilon = eps, !.logacceptprob = lap, !.a = a]
               /\ pc' = "fre_cross"
    /\ UNCHANGED << args, error, f_called, result, buffers, current, mass, dual, m,
                    tree, ghost, sc >>

\* The body of the first loop.
FreHalve ==
    /\ pc = "fre_halve"
    /\ LET k == XMul(fre.k, Half)
           lf == leapfrog(theta0.data, fre.r0, grad, XMul(fre.epsilon, k), f, inv_mass)
       IN fre' = [fre EXCEPT !.k = k, !.rprime = lf.rprime, !.gradprime = lf.gradprime,
                             !.logpprime = lf.logpprime]
    /\ pc' = "fre_while"
    /\ UNCHANGED << args, error, f_called, result, buffers, current, mass, dual, m,
                    tree, ghost, sc >>

\* while (a*logacceptprob > -a*np.log(2.))
FreKeepMoving(x) == XGreater(XMul(x.a, x.logacceptprob), XMul(XNeg(x.a), LN2))

\* One turn of the second loop, or the return and the lines of nuts6 up to
\* its for loop.
FreCross ==
    /\ pc = "fre_cross"
    /\ IF FreKeepMoving(fre)
       THEN \E eps \in {IF fre.a > 0 THEN XMul(fre.epsilon, 2 * Scale)
                                         ELSE XMul(fre.epsilon, Half)} :
            \E lf \in {leapfrog(theta0.data, fre.r0, grad, eps, f, inv_mass)} :
            \E lap \in {XSub(XSub(lf.logpprime, logp),
                              KineticDiff(lf.rprime, fre.r0, inv_mass))} :
               /\ fre' = [fre EXCEPT !.epsilon = eps, !.rprime = lf.rprime,
                                     !.logpprime = lf.logpprime, !.logacceptprob = lap]
               /\ UNCHANGED << pc, dual, m, frozen >>
       ELSE /\ epsilon' = fre.epsilon
            /\ logepsilon' = Log(fre.epsilon)
            /\ mu' = Log(XMul(10 * Scale, fre.epsilon))
            /\ logepsilonbar' = 0
            /\ Hbar' = 0
            /\ m_adapt' = 1
            /\ m' = 1
            /\ frozen' = 0
            /\ pc' = "for"
            /\ fre' = fre
    /\ UNCHANGED << args, error, f_called, result, buffers, current, mass, tree, bt, traj, sc >>

\* ------------------------------------------------- nuts6: the for loop

Reverse(q) == [i \in 1..Len(q) |-> q[Len(q) + 1 - i]]
Points(leaves) == [i \in 1..Len(leaves) |-> leaves[i].to]

\* The top of the for loop (for m in range(1, M + Madapt)) and the lines
\* of its body up to the while loop; or, the range exhausted, the return.
For ==
    /\ pc = "for"
    /\ IF m < M + Madapt
       THEN /\ \E invM_cholr0 \in NormalDraws(D), ex \in ExpVals :
                 LET jt == XSub(logp, XMul(Half, Dot(invM_cholr0, invM_cholr0)))
                     mom == VMul(mass_chol, invM_cholr0)
                 IN /\ r0' = mom
                    /\ joint' = jt
                    /\ logu' = XSub(jt, ex)
                    /\ rminus' = mom
                    /\ rplus' = mom
                    /\ traj' = << [theta |-> samples[m - 1], r |-> mom, grad |-> grad] >>
            /\ samples' = [samples EXCEPT ![m] = samples[m - 1]]
            /\ lnprob' = [lnprob EXCEPT ![m] = lnprob[m - 1]]
            /\ thetaminus' = samples[m - 1]
            /\ thetaplus' = samples[m - 1]
            /\ gradminus' = grad
            /\ gradplus' = grad
            /\ j' = 0
            /\ n' = 1
            /\ s' = 1
            /\ pc' = "while"
            /\ UNCHANGED << result, D, alpha, nalpha >>
       ELSE /\ result' = [samples |-> [i \in 0..(M - 1) |-> samples[Madapt + i]],
                          lnprob |-> [i \in 0..(M - 1) |-> lnprob[Madapt + i]],
                          epsilon |-> epsilon, inv_mass |-> inv_mass]
            /\ pc' = "returned"
            /\ UNCHANGED << buffers, tree, traj >>
    /\ UNCHANGED << args, error, f_called, current, mass, dual, fre, m, bt, frozen, sc >>

\* v = int(2 * (np.random.uniform() < 0.5) - 1)
Direction(u) == 2 * Bool2Int(XLess(u, Half)) - 1

\* The Metropolis test without the test of the subtree's flag.
MHAcceptAnyFlag(sprime, u, nprime, nvalid) ==
    XLess(u, XMin(One, XDiv(nprime * Scale, nvalid * Scale)))

\* (sprime == 1) and (np.random.uniform() < min(1, nprime / n))
MHAccept(sprime, u, nprime, nvalid) ==
    sprime = 1 /\ XLess(u, XMin(One, XDiv(nprime * Scale, nvalid * Scale)))

\* The loop test with j <= max_tree_depth.
LoopContinueInclusive(sprime, crit, depth, maxdepth) ==
    Bool2Int(sprime = 1 /\ crit /\ depth <= maxdepth)

\* s = sprime and stop_criterion(...) and j < max_tree_depth, as the
\* while loop tests it (s == 1)
LoopContinue(sprime, crit, depth, maxdepth) ==
    Bool2Int(sprime = 1 /\ crit /\ depth < maxdepth)

\* The endpoints of the trajectory after a doubling in direction v.
OuterEnds(v, t) ==
    IF v = -1
    THEN [thetaminus |-> t.thetaminus, rminus |-> t.rminus, gradminus |-> t.gradminus,
          thetaplus |-> thetaplus, rplus |-> rplus, gradplus |-> gradplus]
    ELSE [thetaminus |-> thetaminus, rminus |-> rminus, gradminus |-> gradminus,
          thetaplus |-> t.thetaplus, rplus |-> t.rplus, gradplus |-> t.gradplus]

\* One turn of the while loop: a doubling of the tree.
Doubling ==
    /\ pc = "while"
    /\ s = 1
    /\ \E u1 \in UniformVals, us \in [1..NDraws(j) -> UniformVals], u2 \in UniformVals :
       \E v \in {Direction(u1)} :
       \E t \in {IF v = -1
                 THEN build_tree(thetaminus, rminus, gradminus, logu, v, j, epsilon, f,
                                 joint, inv_mass_chol, inv_mass, us)
                 ELSE build_tree(thetaplus, rplus, gradplus, logu, v, j, epsilon, f,
                                 joint, inv_mass_chol, inv_mass, us)} :
         LET ends == OuterEnds(v, t)
             accept == MHAccept(t.sprime, u2, t.nprime, n)
         IN /\ thetaminus' = ends.thetaminus
            /\ rminus' = ends.rminus
            /\ gradminus' = ends.gradminus
            /\ thetaplus' = ends.thetaplus
            /\ rplus' = ends.rplus
            /\ gradplus' = ends.gradplus
            /\ alpha' = t.alphaprime
            /\ nalpha' = t.nalphaprime
            /\ IF accept
               THEN /\ samples' = [samples EXCEPT ![m] = t.thetaprime]
                    /\ lnprob' = [lnprob EXCEPT ![m] = t.logpprime]
                    /\ logp' = t.logpprime
                    /\ grad' = t.gradprime
               ELSE UNCHANGED << samples, lnprob, logp, grad >>
            /\ n' = n + t.nprime
            /\ j' = j + 1
            /\ s' = LoopContinue(t.sprime,
                                 stop_criterion(ends.thetaminus, ends.thetaplus,
                                                ends.rminus, ends.rplus, inv_mass),
                                 j + 1, max_tree_depth)
            /\ bt' = [m |-> m, v |-> v, j |-> j, epsilon |-> epsilon, accepted |-> accept,
                      nbefore |-> n, out |-> t]
            /\ traj' = IF v = -1 THEN Reverse(Points(t.leaves)) \o traj
                       ELSE traj \o Points(t.leaves)
    /\ UNCHANGED << args, pc, error, f_called, result, D, mass, dual, fre, m,
                    r0, joint, logu, frozen, sc >>

\* m_adapt ** -kappa
PowNeg(base, expo) == Bind(Log(base), LAMBDA lb : Bind(XMul(XNeg(expo), lb), LAMBDA x : Exp(x)))

\* The dual averaging update of one burn-in iteration.
DualAveraging ==
    Bind(XDiv(One, (m_adapt + t0) * Scale), LAMBDA eta1 :
    Bind(XAdd(XMul(XSub(One, eta1), Hbar),
              XMul(eta1, XSub(delta, XDiv(alpha, nalpha * Scale)))), LAMBDA hb :
    Bind(XSub(mu, XMul(XDiv(Sqrt(m_adapt * Scale), gamma), hb)), LAMBDA le :
    Bind(PowNeg(m_adapt * Scale, kappa), LAMBDA eta2 :
    Bind(XAdd(XMul(XSub(One, eta2), logepsilonbar), XMul(eta2, le)), LAMBDA leb :
        [Hbar |-> hb, logepsilon |-> le, logepsilonbar |-> leb,
         m_adapt |-> m_adapt + 1])))))

\* diag_mass_avg += (grad[:]**2 - diag_mass_avg)/diag_mass_N
MassUpdate(avg, g, cnt) ==
    [i \in 1..Len(avg) |-> XAdd(avg[i], XDiv(XSub(XMul(g[i], g[i]), avg[i]), cnt * Scale))]

\* m == int(0.25*Madapt) or m == int(0.75*Madapt)
AtRestart(i, burn) == i = burn \div 4 \/ i = (3 * burn) \div 4

\* m == int(0.5*Madapt)
AtMassRestart(i, burn) == i = burn \div 2

\* The step size of the next iteration, from an iteration that was not a
\* burn-in iteration.
AfterBurnIn == [logepsilon |-> logepsilonbar]

\* The while loop left: the rest of the body of the for loop.
IterEnd ==
    /\ pc = "while"
    /\ s # 1
    /\ IF m <= Madapt
       THEN \E da \in {DualAveraging} :
            \E restart \in {AtRestart(m, Madapt)} :
            \E le \in {IF restart THEN da.logepsilonbar ELSE da.logepsilon} :
               /\ Hbar' = IF restart THEN 0 ELSE da.Hbar
               /\ logepsilon' = le
               /\ logepsilonbar' = IF restart THEN 0 ELSE da.logepsilonbar
               /\ m_adapt' = IF restart THEN 1 ELSE da.m_adapt
               /\ epsilon' = Exp(le)
               /\ IF estimate_mass
                  THEN \E avg \in {MassUpdate(diag_mass_avg, grad, diag_mass_N + 1)} :
                          /\ diag_mass_avg' = avg
                          /\ diag_mass_N' = IF AtMassRestart(m, Madapt) THEN 1
                                            ELSE diag_mass_N + 1
                          /\ mass_chol' = VSqrt(avg)
                          /\ inv_mass' = VRecip(avg)
                          /\ inv_mass_chol' = VRecip(VSqrt(avg))
                  ELSE UNCHANGED mass
               /\ frozen' = IF m = Madapt
                            THEN (IF restart THEN 0 ELSE da.logepsilonbar)
                            ELSE frozen
       ELSE /\ logepsilon' = AfterBurnIn.logepsilon
            /\ epsilon' = Exp(AfterBurnIn.logepsilon)
            /\ UNCHANGED << logepsilonbar, Hbar, m_adapt, mass, frozen >>
    /\ m' = m + 1
    /\ pc' = "for"
    /\ UNCHANGED << args, error, f_called, result, buffers, current, mu, fre, tree,
                    bt, traj, sc >>

Next == Start \/ FreWhile \/ FreHalve \/ FreCross \/ For \/ Doubling \/ IterEnd

Spec == Init /\ [][Next]_vars

\* nuts6 under the scheduling of a sequential program: a step that can be
\* taken is taken.
FairSpec == Init /\ [][Next]_vars /\ WF_vars(Next)

\* ---------------------------------------------- stop_criterion, alone

SCValues == {-1000, 0, 1000}
SCSpecial == {-1000, 0, 1000, NaN, PosInf, NegInf}
SCVectors(d) == IF d = 1 THEN [1..1 -> SCSpecial] ELSE [1..d -> SCValues]
SCMasses(d) == {VConst(One, d), [i \in 1..d |-> IF i = 1 THEN Half ELSE 2 * Scale]}

VNeg(x) == [i \in 1..Len(x) |-> XNeg(x[i])]

\* The arguments of a stop_criterion call.
InitSC ==
    /\ f = "quad" /\ M = 1 /\ Madapt = 0 /\ theta0 = [rank |-> 1, data |-> << 1000 >>]
    /\ max_tree_depth = 1 /\ estimate_mass = FALSE
    /\ Blank
    /\ \E d \in {1, 2} :
         \E a \in SCVectors(d), b \in SCVectors(d), ra \in SCVectors(d),
            rb \in SCVectors(d), im \in SCMasses(d) :
           sc = [thetaminus |-> a, thetaplus |-> b, rminus |-> ra, rplus |-> rb,
                 inv_mass |-> im, done |-> FALSE, out |-> FALSE, swapped |-> FALSE,
                 reversed |-> FALSE]

\* The call, the call with the two endpoints swapped, and the call with the
\* two endpoints swapped and both momenta negated.
SCCall ==
    /\ ~sc.done
    /\ sc' = [sc EXCEPT
                !.done = TRUE,
                !.out = stop_criterion(sc.thetaminus, sc.thetaplus, sc.rminus, sc.rplus,
                                       sc.inv_mass),
                !.swapped = stop_criterion(sc.thetaplus, sc.thetaminus, sc.rplus, sc.rminus,
                                           sc.inv_mass),
                !.reversed = stop_criterion(sc.thetaplus, sc.thetaminus, VNeg(sc.rplus),
                                            VNeg(sc.rminus), sc.inv_mass)]
    /\ UNCHANGED << args, pc, error, f_called, result, buffers, current, mass, dual, fre, m,
                    tree, ghost >>

NextSC == SCCall

SpecSC == InitSC /\ [][NextSC]_vars

\* ============================================================== claims

Called == bt.m > 0
Leaves == bt.out.leaves
Calls == bt.out.calls
Point(th, mom, g) == [theta |-> th, r |-> mom, grad |-> g]

\* The last base case of the last build_tree call returned s = 0.
LastFailed == Called /\ Leaves[Len(Leaves)].sprime = 0

\* The while loop has just made a doubling in the current iteration.
JustDoubled == pc = "while" /\ Called /\ bt.m = m

\* C1 (as stated): whenever nuts6 returns, the returned samples have
\* exactly M rows and the first row equals theta0.
C1_Original ==
    pc = "returned" =>
        /\ DOMAIN result.samples = 0..(M - 1)
        /\ result.samples[0] = theta0.data

\* C2 (as stated): with the oracle that returns +inf everywhere, nuts6
\* terminates and returns M samples, every one equal to theta0.
C2_Original ==
    (f = "posinf" /\ theta0.rank = 1) =>
        <>(/\ pc = "returned"
           /\ DOMAIN result.samples = 0..(M - 1)
           /\ \A i \in 0..(M - 1) : result.samples[i] = theta0.data)

\* C3 (as stated): a theta0 whose rank is not 1 is rejected with a
\* ValueError, the oracle never called and no buffer written.
C3_Original ==
    theta0.rank # 1 =>
        /\ pc \in {"start", "raised"}
        /\ pc = "raised" => error = "ValueError"
        /\ ~f_called
        /\ samples = << >> /\ lnprob = << >>

\* C4 (as stated): in every production iteration (Madapt < m) build_tree
\* is given the step size exp(logepsilonbar), logepsilonbar as it stood
\* when burn-in ended.
C4_Original == (Called /\ bt.m > Madapt) => bt.epsilon = Exp(frozen)

\* C5: every build_tree call of depth j, the nested ones included, returns
\* a count n with 0 <= n <= 2^j, whatever the oracle returned.
C5_TreeCount ==
    Called =>
        \A i \in 1..Len(Calls) :
            Calls[i].nprime >= 0 /\ Calls[i].nprime <= Pow2(Calls[i].j)

\* A call of depth >= 1 that met a non-finite joint log-density and still
\* counted a valid point.
C5_Witness ==
    /\ Called /\ bt.j >= 1 /\ bt.out.nprime >= 1
    /\ \E i \in 1..Len(Leaves) : ~IsFinite(Leaves[i].joint)

\* C6 (as stated): stop_criterion(a, b, ra, rb) equals
\* stop_criterion(b, a, rb, ra).
C6_Original == sc.done => sc.out = sc.swapped

\* C6 (amended): stop_criterion(a, b, ra, rb) equals
\* stop_criterion(b, a, -rb, -ra): it is symmetric under swapping the two
\* endpoints and negating both momenta.
C6_Reversal == sc.done => sc.out = sc.reversed

\* A call that returns true, returns false with the endpoints swapped and
\* true again with the momenta negated as well.
C6_Witness == sc.done /\ sc.out /\ ~sc.swapped /\ sc.reversed

\* C7, in a state: a base case that returned s = 0 is the last leapfrog
\* step of its build_tree call; every call that encloses it returned
\* s = 0; a call whose first subtree returned s = 0 built no second
\* subtree; and the while loop's flag is 0 after that doubling.
C7_State ==
    Called =>
        /\ \A i \in 1..(Len(Leaves) - 1) : Leaves[i].sprime = 1
        /\ LastFailed =>
              /\ bt.out.sprime = 0
              /\ \A i \in 1..Len(Calls) :
                    Calls[i].hi = Len(Leaves) => Calls[i].sprime = 0
        /\ \A i \in 1..Len(Calls) : \A k \in 1..Len(Calls) :
              (/\ Calls[k].j = Calls[i].j - 1
               /\ Calls[k].lo = Calls[i].lo
               /\ Calls[k].sprime = 0)
              => (Calls[i].hi = Calls[k].hi /\ Calls[i].sprime = 0)
        /\ (JustDoubled /\ LastFailed) => s = 0

\* C7: within one outer iteration, once a base case of build_tree returns
\* s = 0 the flag stays 0 up to the while loop, no second subtree is built
\* and no leapfrog step follows: the next step leaves the while loop with
\* the trajectory as it is.
C7_StopPropagates ==
    /\ []C7_State
    /\ [][(JustDoubled /\ LastFailed) => (pc' = "for" /\ traj' = traj)]_vars

\* A depth >= 1 call cut short by a base case that returned s = 0.
C7_Witness ==
    JustDoubled /\ bt.j >= 1 /\ LastFailed /\ Len(Leaves) < Pow2(bt.j)

\* The point the last build_tree call of the while loop started from.
StartPoint == IF bt.v = -1 THEN traj[Len(Leaves) + 1] ELSE traj[Len(traj) - Len(Leaves)]

\* C8, in a state: the points of the trajectory are chained by leapfrog
\* steps, each taken from the end point of the one before; minus and plus
\* are the first and the last point in time order, in the while loop and
\* in every build_tree call.
C8_State ==
    pc = "while" =>
        /\ Point(thetaminus, rminus, gradminus) = traj[1]
        /\ Point(thetaplus, rplus, gradplus) = traj[Len(traj)]
        /\ JustDoubled =>
              /\ \A i \in 1..Len(Leaves) :
                    Leaves[i].from = IF i = 1 THEN StartPoint ELSE Leaves[i - 1].to
              /\ \A i \in 1..Len(Calls) :
                    IF bt.v = -1
                    THEN /\ Calls[i].plus = Leaves[Calls[i].lo].to
                         /\ Calls[i].minus = Leaves[Calls[i].hi].to
                    ELSE /\ Calls[i].minus = Leaves[Calls[i].lo].to
                         /\ Calls[i].plus = Leaves[Calls[i].hi].to

\* C8: a doubling with v = -1 leaves the plus endpoint as it was and one
\* with v = +1 the minus endpoint, in the while loop and in build_tree, so
\* that minus and plus are the earliest and the latest point built.
C8_Endpoints ==
    /\ []C8_State
    /\ [][(pc = "while" /\ pc' = "while") =>
            IF bt'.v = -1
            THEN << thetaplus, rplus, gradplus >>' = << thetaplus, rplus, gradplus >>
            ELSE << thetaminus, rminus, gradminus >>' = << thetaminus, rminus, gradminus >>]_vars

\* A backward doubling of two leapfrog steps after a first doubling.
C8_Witness ==
    /\ JustDoubled /\ bt.j = 1 /\ bt.v = -1 /\ Len(Leaves) = 2 /\ Len(traj) = 4
    /\ traj[1] # traj[2]

\* C9 (as stated): for every max_tree_depth >= 0, the depth j reached
\* never exceeds max_tree_depth, build_tree is never called with a depth
\* >= max_tree_depth, and an iteration takes at most 2^max_tree_depth - 1
\* leapfrog steps.
C9_Original ==
    /\ pc = "while" => /\ j <= max_tree_depth
                       /\ Len(traj) - 1 <= Pow2(max_tree_depth) - 1
    /\ Called => bt.j < max_tree_depth

\* max_tree_depth, and 1 when it is 0.
EffDepth == IF max_tree_depth >= 1 THEN max_tree_depth ELSE 1

\* C9 (amended): the bounds hold with max(max_tree_depth, 1) for
\* max_tree_depth: j never exceeds it, build_tree is never called with a
\* depth >= it, and an iteration takes at most 2^it - 1 leapfrog steps.
C9_DepthBound ==
    /\ pc = "while" => /\ j <= EffDepth
                       /\ Len(traj) - 1 <= Pow2(EffDepth) - 1
    /\ Called => bt.j < EffDepth

\* The while loop stopped by the depth bound alone, the tree full.
C9_Witness ==
    /\ JustDoubled /\ s = 0 /\ max_tree_depth >= 2 /\ j = max_tree_depth
    /\ bt.out.sprime = 1
    /\ stop_criterion(thetaminus, thetaplus, rminus, rplus, inv_mass)
    /\ Len(traj) = Pow2(max_tree_depth)

\* The row of samples the iteration at hand emits.
Cur == IF pc = "for" THEN m - 1 ELSE m

\* C10, in a state: the carried logp and grad are the oracle's values at
\* the emitted sample, and the emitted log-density is the carried logp.
C10_State ==
    pc \in {"for", "while"} =>
        /\ lnprob[Cur] = logp
        /\ Call(f, samples[Cur]) = [logp |-> logp, grad |-> grad]

\* C10: iteration m starts from (samples[m-1], lnprob[m-1]); a doubling
\* changes the emitted pair only by adopting the candidate of a build_tree
\* call that returned s = 1 and n >= 1, together with the carried logp and
\* grad; nothing else changes them, and no earlier row changes.
C10_Emission ==
    /\ []C10_State
    /\ [][/\ (pc = "for" /\ pc' = "while") =>
                /\ samples'[m] = samples[m - 1] /\ lnprob'[m] = lnprob[m - 1]
                /\ \A i \in 0..(m - 1) : samples'[i] = samples[i] /\ lnprob'[i] = lnprob[i]
          /\ (pc = "while" /\ pc' = "while") =>
                /\ \A i \in 0..(m - 1) : samples'[i] = samples[i] /\ lnprob'[i] = lnprob[i]
                /\ \/ UNCHANGED << samples, lnprob, logp, grad >>
                   \/ /\ bt'.out.sprime = 1 /\ bt'.out.nprime >= 1
                      /\ samples'[m] = bt'.out.thetaprime
                      /\ lnprob'[m] = bt'.out.logpprime
                      /\ logp' = bt'.out.logpprime
                      /\ grad' = bt'.out.gradprime
          /\ (pc = "while" /\ pc' = "for") => UNCHANGED << samples, lnprob, logp, grad >>]_vars

\* A doubling whose candidate was adopted and moved the sample.
C10_Witness == JustDoubled /\ bt.accepted /\ samples[m] # samples[m - 1]

====
